---- MODULE Spec2Model ----
(***************************************************************************)
(* Buffered graphics mode of the ssd1306 driver: the framebuffer, the      *)
(* dirty-region tracker, the rotation-aware pixel mapping and the flush     *)
(* protocol (src/src/mode/buffered_graphics.rs), with the per-model         *)
(* geometry of src/src/displaysize.rs.                                      *)
(***************************************************************************)
EXTENDS Integers, Sequences, FiniteSets, TLC

VARIABLES
    SIZE,       \* the DisplaySize implementation the instance is built for
    rotation,   \* Ssd1306::rotation
    buffer,     \* BufferedGraphicsMode::buffer, index 0..BufferSize-1
    min_x,      \* BufferedGraphicsMode::min_x (u8)
    max_x,      \* BufferedGraphicsMode::max_x (u8)
    min_y,      \* BufferedGraphicsMode::min_y (u8)
    max_y,      \* BufferedGraphicsMode::max_y (u8)
    gddram,     \* the controller's display RAM, index page * DRIVER_COLS + column
    sent,       \* addressing commands and data chunks the channel accepted during the latest call
    last,       \* the latest call: its name, arguments and outcome
    panicked,   \* TRUE once a call has panicked; the program makes no further call
    left,       \* number of calls the run may still make
    synced,     \* history: the display RAM equalled the buffer when the dirty region was last
                \* empty, and only in-range set_pixel and clear calls were made since
    touched,    \* history: [fresh, pts], pts the coordinates of the in-range set_pixel calls
                \* made since the dirty region was last empty, fresh when no other call
                \* has changed the dirty region since
    awaiting    \* the suspended flush_async future: [queue, final], queue the sends it has
                \* yet to complete, the first being the one it awaits, and final its
                \* outcome once they are through; the queue is empty when no future is alive

vars == <<SIZE, rotation, buffer, min_x, max_x, min_y, max_y,
          gddram, sent, last, panicked, left, synced, touched, awaiting>>

----------------------------------------------------------------------------
(* Bounds of the exploration *)

\* calls per run, over every geometry
MaxOps == 2

\* calls per run, on the one geometry of the longer runs
MaxDeepOps == 3

\* calls per run, on the one geometry of the runs with flush_async
MaxAsyncOps == 3

\* a flush may be told that its k-th send fails, k in 1..MaxFailAt (0: the channel never fails)
MaxFailAt == 2

----------------------------------------------------------------------------
(* src/src/displaysize.rs *)

DisplaySize128x64 == [WIDTH |-> 128, HEIGHT |-> 64, OFFSETX |-> 0,  OFFSETY |-> 0, BufferSize |-> 1024]
DisplaySize128x32 == [WIDTH |-> 128, HEIGHT |-> 32, OFFSETX |-> 0,  OFFSETY |-> 0, BufferSize |-> 512]
DisplaySize96x16  == [WIDTH |-> 96,  HEIGHT |-> 16, OFFSETX |-> 0,  OFFSETY |-> 0, BufferSize |-> 192]
DisplaySize72x40  == [WIDTH |-> 72,  HEIGHT |-> 40, OFFSETX |-> 28, OFFSETY |-> 0, BufferSize |-> 360]
DisplaySize64x48  == [WIDTH |-> 64,  HEIGHT |-> 48, OFFSETX |-> 32, OFFSETY |-> 0, BufferSize |-> 384]

DisplaySize ==
    {DisplaySize128x64, DisplaySize128x32, DisplaySize96x16, DisplaySize72x40, DisplaySize64x48}

\* SIZE::DRIVER_COLS, the controller's total column count
DRIVER_COLS == 128

\* number of 8-row pages of the controller's display RAM
DRIVER_PAGES == 8

DisplayRotation == {"Rotate0", "Rotate90", "Rotate180", "Rotate270"}

----------------------------------------------------------------------------
(* u8 arithmetic: the result and whether it left 0..255 *)

U8 == 256

\* `v as u8`
AsU8(v) == v % U8

\* a + b in u8: the wrapped value and the overflow flag
AddU8(a, b) == [val |-> (a + b) % U8, ovf |-> a + b >= U8]

\* a - b in u8: the wrapped value and the overflow flag
SubU8(a, b) == [val |-> (a - b + U8) % U8, ovf |-> a < b]

\* Or7 without the rounding to the end of the page
Or7_Identity(a) == a

\* a | 7
Or7(a) == (a \div 8) * 8 + 7

\* u8::min, u8::max
MinU8(a, b) == IF a <= b THEN a ELSE b
MaxU8(a, b) == IF a >= b THEN a ELSE b

\* 2^k for a bit position k in 0..7
Pow2(k) == CASE k = 0 -> 1 [] k = 1 -> 2 [] k = 2 -> 4 [] k = 3 -> 8
             [] k = 4 -> 16 [] k = 5 -> 32 [] k = 6 -> 64 [] k = 7 -> 128

\* (byte >> bit) & 1
BitOf(byte, bit) == (byte \div Pow2(bit)) % 2

\* byte & !(1 << bit)
ClearBit(byte, bit) == byte - BitOf(byte, bit) * Pow2(bit)

\* a | b for a byte a whose bit `bit` is 0 and b = value << bit
OrBit(byte, value, bit) == byte + value * Pow2(bit)

\* `value as u8` for a bool
BoolAsU8(value) == IF value THEN 1 ELSE 0

----------------------------------------------------------------------------
(* The display instance *)

\* Ssd1306::dimensions: the logical (width, height) under a rotation
dimensions(size, rot) ==
    IF rot \in {"Rotate0", "Rotate180"}
    THEN <<size.WIDTH, size.HEIGHT>>
    ELSE <<size.HEIGHT, size.WIDTH>>

\* NewZeroed::new_zeroed for SIZE::Buffer
NewZeroed(size) == [i \in 0..(size.BufferSize - 1) |-> 0]

\* new with the whole display dirty
new_AllDirty(size) ==
    [buffer |-> NewZeroed(size), min_x |-> 0, max_x |-> size.WIDTH - 1,
     min_y |-> 0, max_y |-> size.HEIGHT - 1]

\* BufferedGraphicsMode::new: a zeroed buffer and the empty dirty region
new(size) ==
    [buffer |-> NewZeroed(size), min_x |-> 255, max_x |-> 0, min_y |-> 255, max_y |-> 0]

\* PixelIndex with rows of HEIGHT bytes under rotation 90/270
PixelIndex_HeightStride(size, rot, x, y) ==
    IF rot \in {"Rotate0", "Rotate180"}
    THEN <<(y \div 8) * size.WIDTH + x, y % 8>>
    ELSE <<(x \div 8) * size.HEIGHT + y, x % 8>>

\* PixelIndex with the rotation ignored
PixelIndex_Unrotated(size, rot, x, y) ==
    <<(y \div 8) * size.WIDTH + x, y % 8>>

\* set_pixel, the match on the rotation: <<idx, bit>>
PixelIndex(size, rot, x, y) ==
    IF rot \in {"Rotate0", "Rotate180"}
    THEN <<(y \div 8) * size.WIDTH + x, y % 8>>
    ELSE <<(x \div 8) * size.WIDTH + y, x % 8>>

\* SetBit that writes the whole byte
SetBit_WholeByte(byte, bit, value) == IF value THEN U8 - 1 ELSE 0

\* set_pixel, the write of the byte: *byte & !(1 << bit) | (value << bit)
SetBit(byte, bit, value) == OrBit(ClearBit(byte, bit), BoolAsU8(value), bit)

\* Widen with x and y exchanged
Widen_Swapped(m, x, y) ==
    [m EXCEPT !.min_x = MinU8(m.min_x, AsU8(y)),
              !.max_x = MaxU8(m.max_x, AsU8(y)),
              !.min_y = MinU8(m.min_y, AsU8(x)),
              !.max_y = MaxU8(m.max_y, AsU8(x))]

\* set_pixel, "keep track of max and min values": the dirty region widened to (x, y)
Widen(m, x, y) ==
    [m EXCEPT !.min_x = MinU8(m.min_x, AsU8(x)),
              !.max_x = MaxU8(m.max_x, AsU8(x)),
              !.min_y = MinU8(m.min_y, AsU8(y)),
              !.max_y = MaxU8(m.max_y, AsU8(y))]

\* set_pixel: the mode after the call, as [buffer, min_x, max_x, min_y, max_y]
set_pixel(size, rot, m, x, y, value) ==
    LET ib  == PixelIndex(size, rot, x, y)
        idx == ib[1]
        bit == ib[2]
    IN  IF idx \in DOMAIN m.buffer
        THEN [Widen(m, x, y) EXCEPT !.buffer[idx] = SetBit(m.buffer[idx], bit, value)]
        ELSE m

\* OriginDimensions_size that ignores the rotation
OriginDimensions_size_Unrotated(sz, rot) == <<sz.WIDTH, sz.HEIGHT>>

\* OriginDimensions::size: the logical (width, height)
OriginDimensions_size(sz, rot) == dimensions(sz, rot)

\* bounding_box().contains(pos): the rectangle at the origin (0, 0) of size `extent`
contains(extent, pos) ==
    /\ 0 <= pos[1] /\ pos[1] < extent[1]
    /\ 0 <= pos[2] /\ pos[2] < extent[2]

\* draw_iter: the pixels inside the bounding box go to set_pixel, in order; pos.x as
\* u32 and pos.y as u32 are taken of coordinates that passed the filter, which are
\* not negative and keep their value
RECURSIVE draw_iter(_, _, _, _)
draw_iter(sz, rot, m, pixels) ==
    IF pixels = <<>>
    THEN m
    ELSE LET p == Head(pixels)
         IN  draw_iter(sz, rot,
                       IF contains(OriginDimensions_size(sz, rot), p.pos)
                       THEN set_pixel(sz, rot, m, p.pos[1], p.pos[2], p.on)
                       ELSE m,
                       Tail(pixels))

\* clear_impl, the fill: every byte becomes `value as u8`
ClearFill(value) == BoolAsU8(value)

\* clear_impl with the dirty region taken from the unrotated geometry
clear_impl_Unrotated(size, rot, m, value) ==
    [buffer |-> [i \in DOMAIN m.buffer |-> ClearFill(value)],
     min_x  |-> 0,
     max_x  |-> size.WIDTH - 1,
     min_y  |-> 0,
     max_y  |-> size.HEIGHT - 1]

\* clear_impl: the mode after the call
clear_impl(size, rot, m, value) ==
    LET dims == dimensions(size, rot)
    IN  [buffer |-> [i \in DOMAIN m.buffer |-> ClearFill(value)],
         min_x  |-> 0,
         max_x  |-> dims[1] - 1,
         min_y  |-> 0,
         max_y  |-> dims[2] - 1]

\* ColumnBound without the + 1
ColumnBound_Inclusive(max) == [val |-> max, ovf |-> FALSE]

\* dirty_area, the upper bound on the axis that walks the columns: max + 1
ColumnBound(max) == AddU8(max, 1)

\* dirty_area with the rotation ignored
dirty_area_Unrotated(rot, m, width, height) ==
    [min |-> <<m.min_x, m.min_y>>,
     max |-> <<MinU8(ColumnBound(m.max_x).val, width), MinU8(Or7(m.max_y), height)>>,
     ovf |-> ColumnBound(m.max_x).ovf]

\* dirty_area: [min, max, ovf], ovf when max + 1 leaves the u8 range
dirty_area(rot, m, width, height) ==
    IF rot \in {"Rotate0", "Rotate180"}
    THEN [min |-> <<m.min_x, m.min_y>>,
          max |-> <<MinU8(ColumnBound(m.max_x).val, width), MinU8(Or7(m.max_y), height)>>,
          ovf |-> ColumnBound(m.max_x).ovf]
    ELSE [min |-> <<m.min_x, m.min_y>>,
          max |-> <<MinU8(Or7(m.max_x), width), MinU8(ColumnBound(m.max_y).val, height)>>,
          ovf |-> ColumnBound(m.max_y).ovf]

\* offset_x without the mirroring under rotation 90/180
offset_x_Plain(size, rot) == size.OFFSETX

\* offset_x of a panel that starts at the controller's first column
offset_x_None(size, rot) == 0

\* display_area, the horizontal offset under a rotation
offset_x(size, rot) ==
    IF rot \in {"Rotate0", "Rotate270"}
    THEN size.OFFSETX
    ELSE DRIVER_COLS - size.WIDTH - size.OFFSETX

\* display_area: [start, end, ovf], ovf when a sum leaves the u8 range
display_area(size, rot, disp_min, disp_max) ==
    LET ox == offset_x(size, rot)
        oy == size.OFFSETY
        a  == IF rot \in {"Rotate0", "Rotate180"}
              THEN <<AddU8(disp_min[1], ox), AddU8(disp_min[2], oy),
                     AddU8(disp_max[1], ox), AddU8(disp_max[2], oy)>>
              ELSE <<AddU8(disp_min[2], ox), AddU8(disp_min[1], oy),
                     AddU8(disp_max[2], ox), AddU8(disp_max[1], oy)>>
    IN  [start |-> <<a[1].val, a[2].val>>,
         end   |-> <<a[3].val, a[4].val>>,
         ovf   |-> a[1].ovf \/ a[2].ovf \/ a[3].ovf \/ a[4].ovf]

----------------------------------------------------------------------------
(* The command channel and the controller behind it *)

\* the addressing command: first and last column, first and last page
AddrMsg(col_start, col_end, page_start, page_end) ==
    [kind |-> "addr", start |-> <<col_start, page_start>>, end |-> <<col_end, page_end>>,
     bytes |-> <<>>]

\* one send of data bytes
DataMsg(bytes) ==
    [kind |-> "data", start |-> <<0, 0>>, end |-> <<0, 0>>, bytes |-> bytes]

\* u8::saturating_sub(1)
SatDec(a) == IF a = 0 THEN 0 ELSE a - 1

\* Ssd1306::set_draw_area: the addressing command for the rectangle start..end,
\* end exclusive, rows given in pixels and addressed in pages of 8
set_draw_area(start, end) ==
    AddrMsg(start[1], SatDec(end[1]), start[2] \div 8, SatDec(end[2]) \div 8)

\* Ssd1306::flush_buffer_chunks: the page rows of the buffer cut to the column span;
\* ovf when the row difference leaves the u8 range, bad_slice when a row cannot be cut
flush_buffer_chunks(buf, disp_width, upper_left, lower_right) ==
    LET len           == Cardinality(DOMAIN buf)
        span          == SubU8(lower_right[2], upper_left[2])
        num_pages     == span.val \div 8 + 1
        starting_page == upper_left[2] \div 8
        page_lower    == upper_left[1]
        page_upper    == lower_right[1]
        rows          == (len + disp_width - 1) \div disp_width
        taken         == IF starting_page >= rows THEN 0
                         ELSE IF starting_page + num_pages > rows THEN rows - starting_page
                         ELSE num_pages
        row_len(p)    == IF (p + 1) * disp_width <= len THEN disp_width ELSE len - p * disp_width
        bad           == taken > 0 /\ (page_lower > page_upper \/ page_upper > row_len(starting_page))
    IN  [chunks    |-> IF bad THEN <<>>
                       ELSE [k \in 1..taken |->
                               [j \in 1..(page_upper - page_lower) |->
                                   buf[(starting_page + k - 1) * disp_width + page_lower + j - 1]]],
         ovf       |-> span.ovf,
         bad_slice |-> bad]

RECURSIVE Concat(_)
\* the bytes of a sequence of chunks, in order
Concat(chunks) ==
    IF chunks = <<>> THEN <<>> ELSE Head(chunks) \o Concat(Tail(chunks))

\* the data bytes among the messages of one flush
DataBytes(msgs) ==
    Concat([k \in 1..(Len(msgs) - 1) |-> msgs[k + 1].bytes])

\* the controller in horizontal addressing mode: after the addressing command the
\* bytes fill the window row by row, the pointer wrapping at the window's end
DeviceWrite(ram, cmd, bytes) ==
    LET c0     == cmd.start[1] % DRIVER_COLS
        c1     == cmd.end[1] % DRIVER_COLS
        p0     == cmd.start[2] % DRIVER_PAGES
        p1     == cmd.end[2] % DRIVER_PAGES
        ncols  == IF c1 >= c0 THEN c1 - c0 + 1 ELSE 1
        npages == IF p1 >= p0 THEN p1 - p0 + 1 ELSE 1
        cap    == ncols * npages
        n      == Len(bytes)
        \* the cell of the window that the i0-th byte of a pass over it reaches
        cell(i0) == (p0 + (i0 \div ncols)) * DRIVER_COLS + c0 + (i0 % ncols)
        \* the cells written, each with the byte of the last pass that reached it
        written == [a \in {cell(i0) : i0 \in {j \in 0..(cap - 1) : j < n}} |->
                      LET i0 == ((a \div DRIVER_COLS) - p0) * ncols
                                    + ((a % DRIVER_COLS) - c0)
                      IN  bytes[i0 + ((n - 1 - i0) \div cap) * cap + 1]]
    IN  written @@ ram

\* the display RAM after the controller has taken the messages of one flush
DeviceAfter(ram, msgs) ==
    IF msgs = <<>> THEN ram ELSE DeviceWrite(ram, msgs[1], DataBytes(msgs))

----------------------------------------------------------------------------
(* flush *)

\* ResetDirty with the minima reset to 0
ResetDirty_Zero(m) == [m EXCEPT !.min_x = 0, !.max_x = 0, !.min_y = 0, !.max_y = 0]

\* ResetDirty that keeps the dirty region
ResetDirty_Keep(m) == m

\* flush, the reset of the dirty region before the transfer
ResetDirty(m) == [m EXCEPT !.min_x = 255, !.max_x = 0, !.min_y = 255, !.max_y = 0]

\* flush, the early return: nothing changed since the last update
NothingDirty(m) == m.max_x < m.min_x \/ m.max_y < m.min_y

\* SendOrder with the data streamed before the addressing command
SendOrder_DataFirst(cmd, chunks) ==
    [k \in 1..Len(chunks) |-> DataMsg(chunks[k])] \o <<cmd>>

\* flush, the order of its sends: set_draw_area, then flush_buffer_chunks row by row
SendOrder(cmd, chunks) ==
    <<cmd>> \o [k \in 1..Len(chunks) |-> DataMsg(chunks[k])]

\* no rectangle: flush returned before display_area
NoArea == <<<<0, 0>>, <<0, 0>>>>

\* disp_width that is `width` under every rotation
disp_width_Width(rot, width, height) == width

\* flush, the row length handed to flush_buffer_chunks: `width as usize` under
\* rotation 0/180, `height as usize` under rotation 90/270, of (width, height) =
\* dimensions()
disp_width(rot, width, height) ==
    IF rot \in {"Rotate0", "Rotate180"} THEN width ELSE height

\* flush: [mode, msgs, res, tried, ovf, area], the mode after the call, the messages
\* the channel accepted, the outcome, the number of sends attempted, whether a u8
\* operation left 0..255, and (area_start, area_end) of display_area, NoArea when
\* flush returned before computing it.  fail_at = k > 0: the channel fails the k-th send.
\* checked: the build panics on integer overflow instead of wrapping.
flush(size, rot, m, fail_at, checked) ==
    IF NothingDirty(m)
    THEN [mode |-> m, msgs |-> <<>>, res |-> "Ok", tried |-> 0, ovf |-> FALSE,
          area |-> NoArea]
    ELSE
      LET dims  == dimensions(size, rot)
          da    == dirty_area(rot, m, dims[1], dims[2])
          ar    == display_area(size, rot, da.min, da.max)
          clean == ResetDirty(m)
          cmd   == set_draw_area(ar.start, ar.end)
          fb    == IF rot \in {"Rotate0", "Rotate180"}
                   THEN flush_buffer_chunks(m.buffer, disp_width(rot, dims[1], dims[2]),
                                            <<da.min[1], da.min[2]>>, <<da.max[1], da.max[2]>>)
                   ELSE flush_buffer_chunks(m.buffer, disp_width(rot, dims[1], dims[2]),
                                            <<da.min[2], da.min[1]>>, <<da.max[2], da.max[1]>>)
          sends == SendOrder(cmd, fb.chunks)
      IN  IF checked /\ (da.ovf \/ ar.ovf)
          THEN [mode |-> m, msgs |-> <<>>, res |-> "Panic", tried |-> 0, ovf |-> TRUE,
                area |-> <<ar.start, ar.end>>]
          ELSE IF fail_at = 1
          THEN [mode |-> clean, msgs |-> <<>>, res |-> "Err", tried |-> 1,
                ovf |-> da.ovf \/ ar.ovf, area |-> <<ar.start, ar.end>>]
          ELSE IF (checked /\ fb.ovf) \/ fb.bad_slice
          THEN [mode |-> clean, msgs |-> SubSeq(sends, 1, 1), res |-> "Panic", tried |-> 1,
                ovf |-> da.ovf \/ ar.ovf \/ fb.ovf, area |-> <<ar.start, ar.end>>]
          ELSE IF fail_at \in 2..Len(sends)
          THEN [mode |-> clean, msgs |-> SubSeq(sends, 1, fail_at - 1), res |-> "Err",
                tried |-> fail_at, ovf |-> da.ovf \/ ar.ovf \/ fb.ovf,
                area |-> <<ar.start, ar.end>>]
          ELSE [mode |-> clean, msgs |-> sends, res |-> "Ok", tried |-> Len(sends),
                ovf |-> da.ovf \/ ar.ovf \/ fb.ovf, area |-> <<ar.start, ar.end>>]

\* flush_async that leaves the dirty region as it found it
flush_async_KeepDirty(size, rot, m, checked) ==
    [flush(size, rot, m, 0, checked) EXCEPT !.mode = m]

\* flush_async: the statements of flush with every send awaited; [mode, msgs, res,
\* tried, ovf] as flush gives them when the channel does not fail, mode being the
\* mode at the first suspension point, msgs the sends the future goes through and
\* res its outcome after them
flush_async(size, rot, m, checked) == flush(size, rot, m, 0, checked)

----------------------------------------------------------------------------
(* The state machine *)

\* the mode fields of the current state
Mode == [buffer |-> buffer, min_x |-> min_x, max_x |-> max_x, min_y |-> min_y, max_y |-> max_y]

\* the (x, y) a caller passes to set_pixel: two pixels inside every geometry under
\* every rotation, in different columns, pages and bits (one of them on bit 0 under
\* each rotation), the origin, and pixels outside every geometry on one axis, at 200
\* and at the largest u8
PixelArgs == {<<0, 0>>, <<1, 8>>, <<8, 3>>, <<200, 0>>, <<0, 200>>, <<255, 1>>, <<1, 255>>}

\* (x, y) lies inside the logical extent of the display under the rotation
InRange(size, rot, x, y) ==
    x < dimensions(size, rot)[1] /\ y < dimensions(size, rot)[2]

\* the display RAM cell that shows buffer byte i under the rotation
DeviceIndex(size, rot, i) ==
    ((i \div size.WIDTH) + size.OFFSETY \div 8) * DRIVER_COLS
        + (i % size.WIDTH) + offset_x(size, rot)

\* the display RAM shows the buffer, byte for byte
DeviceEqualsBuffer ==
    \A i \in DOMAIN buffer : gddram[DeviceIndex(SIZE, rotation, i)] = buffer[i]

DirtyEmpty == max_x < min_x \/ max_y < min_y

\* the record of a call: its name, arguments and outcome, the call made before it
\* (name and outcome), whether `synced` held and what the dirty region was when it was
\* made; for a flush, the number of sends it attempted and whether a u8 operation of
\* it left 0..255, and the rectangle display_area gave it; for draw_iter, the pixels
\* it was given
Call(op, x, y, value, res) ==
    [op |-> op, x |-> x, y |-> y, value |-> value, res |-> res,
     after |-> <<last.op, last.res>>, synced |-> synced,
     dirty |-> <<min_x, max_x, min_y, max_y>>, tried |-> 0, ovf |-> FALSE,
     pixels |-> <<>>, area |-> NoArea]

\* Ssd1306::new followed by into_buffered_graphics_mode, for a geometry and a call budget
\* no flush_async future is alive
NoFuture == [queue |-> <<>>, final |-> "none"]

Construct(size, budget) ==
    /\ SIZE = size
    /\ left = budget
    /\ rotation \in DisplayRotation
    /\ buffer = new(size).buffer
    /\ min_x = new(size).min_x
    /\ max_x = new(size).max_x
    /\ min_y = new(size).min_y
    /\ max_y = new(size).max_y
    /\ gddram = [a \in 0..(DRIVER_PAGES * DRIVER_COLS - 1) |-> 0]
    /\ sent = <<>>
    /\ last = [op |-> "new", x |-> 0, y |-> 0, value |-> FALSE, res |-> "Ok",
               after |-> <<"none", "Ok">>, synced |-> TRUE,
               dirty |-> <<255, 0, 255, 0>>, tried |-> 0, ovf |-> FALSE,
               pixels |-> <<>>, area |-> NoArea]
    /\ panicked = FALSE
    /\ synced = TRUE
    /\ touched = [fresh |-> TRUE, pts |-> {}]
    /\ awaiting = NoFuture

Init == \E size \in DisplaySize : Construct(size, MaxOps)

InitDeep == Construct(DisplaySize72x40, MaxDeepOps)

InitAsync == Construct(DisplaySize72x40, MaxAsyncOps)

\* a call can be made: the program runs, and no flush_async future holds the
\* exclusive borrow of the display
Ready == ~panicked /\ left > 0 /\ awaiting = NoFuture

SetMode(m) ==
    /\ buffer' = m.buffer
    /\ min_x' = m.min_x
    /\ max_x' = m.max_x
    /\ min_y' = m.min_y
    /\ max_y' = m.max_y

SetPixel ==
    /\ Ready
    /\ \E xy \in PixelArgs, value \in BOOLEAN :
       LET x == xy[1]
           y == xy[2]
       IN
         /\ SetMode(set_pixel(SIZE, rotation, Mode, x, y, value))
         /\ last' = Call("set_pixel", x, y, value, "Ok")
         /\ synced' = (synced /\ InRange(SIZE, rotation, x, y))
         /\ touched' = IF InRange(SIZE, rotation, x, y)
                       THEN [touched EXCEPT !.pts = @ \cup {<<x, y>>}]
                       ELSE [touched EXCEPT !.fresh = FALSE]
    /\ sent' = <<>>
    /\ left' = left - 1
    /\ UNCHANGED <<SIZE, rotation, gddram, panicked, awaiting>>

\* a pixel of a drawing: its position (signed) and whether its colour is on
Pixel(x, y, on) == [pos |-> <<x, y>>, on |-> on]

\* the drawings given to draw_iter: pixels inside the display mixed with pixels left
\* of it, above it, right of it and below it
PixelBatches ==
    { <<Pixel(1, 8, TRUE), Pixel(-1, 3, TRUE), Pixel(200, 0, TRUE)>>,
      <<Pixel(1, 50, TRUE), Pixel(1, 8, FALSE)>>,
      <<Pixel(3, -2, TRUE), Pixel(0, 200, FALSE)>> }

\* DrawTarget::draw_iter
DrawIter ==
    /\ Ready
    /\ \E pixels \in PixelBatches :
         /\ SetMode(draw_iter(SIZE, rotation, Mode, pixels))
         /\ last' = [Call("draw_iter", 0, 0, FALSE, "Ok") EXCEPT !.pixels = pixels]
         /\ touched' = [touched EXCEPT !.pts = @ \cup
                          {pixels[k].pos : k \in {j \in 1..Len(pixels) :
                               /\ pixels[j].pos[1] >= 0 /\ pixels[j].pos[2] >= 0
                               /\ InRange(SIZE, rotation, pixels[j].pos[1],
                                          pixels[j].pos[2])}}]
    /\ sent' = <<>>
    /\ left' = left - 1
    /\ UNCHANGED <<SIZE, rotation, gddram, panicked, synced, awaiting>>

\* DrawTarget::clear
Clear ==
    /\ Ready
    /\ \E value \in BOOLEAN :
         /\ SetMode(clear_impl(SIZE, rotation, Mode, value))
         /\ last' = Call("clear", 0, 0, value, "Ok")
    /\ sent' = <<>>
    /\ left' = left - 1
    /\ touched' = [fresh |-> FALSE, pts |-> {}]
    /\ UNCHANGED <<SIZE, rotation, gddram, panicked, synced, awaiting>>

\* DisplayConfig::init
InitDisplay ==
    /\ Ready
    /\ SetMode(clear_impl(SIZE, rotation, Mode, FALSE))
    /\ last' = Call("init", 0, 0, FALSE, "Ok")
    /\ sent' = <<>>
    /\ left' = left - 1
    /\ touched' = [fresh |-> FALSE, pts |-> {}]
    /\ UNCHANGED <<SIZE, rotation, gddram, panicked, synced, awaiting>>

\* Ssd1306::set_rotation: the rotation changes and the whole display becomes dirty
set_rotation(size, m, rot) ==
    [m EXCEPT !.min_x = 0, !.max_x = dimensions(size, rot)[1] - 1,
              !.min_y = 0, !.max_y = dimensions(size, rot)[2] - 1]

SetRotation ==
    /\ Ready
    /\ \E rot \in DisplayRotation :
         /\ rotation' = rot
         /\ SetMode(set_rotation(SIZE, Mode, rot))
         /\ last' = Call("set_rotation", 0, 0, FALSE, "Ok")
    /\ sent' = <<>>
    /\ left' = left - 1
    /\ synced' = FALSE
    /\ touched' = [fresh |-> FALSE, pts |-> {}]
    /\ UNCHANGED <<SIZE, gddram, panicked, awaiting>>

Flush ==
    /\ Ready
    /\ UNCHANGED <<SIZE, rotation, awaiting>>
    /\ \E r \in {flush(SIZE, rotation, Mode, fail_at, checked) :
                    fail_at \in 0..MaxFailAt, checked \in BOOLEAN} :
         /\ SetMode(r.mode)
         /\ sent' = r.msgs
         /\ gddram' = DeviceAfter(gddram, r.msgs)
         /\ last' = [Call("flush", 0, 0, FALSE, r.res) EXCEPT !.tried = r.tried,
                                                              !.ovf = r.ovf,
                                                              !.area = r.area]
         /\ panicked' = (r.res = "Panic")
    /\ left' = left - 1
    /\ synced' = (DirtyEmpty' /\ DeviceEqualsBuffer')
    /\ touched' = [fresh |-> DirtyEmpty', pts |-> {}]

\* flush_async, polled to its first suspension point or, when it has none, to its
\* end: it awaits set_draw_area_async with the dirty region already reset
FlushAsync ==
    /\ Ready
    /\ UNCHANGED <<SIZE, rotation, gddram, panicked>>
    /\ \E r \in {flush_async(SIZE, rotation, Mode, checked) : checked \in BOOLEAN} :
         /\ SetMode(r.mode)
         /\ r.msgs = <<>> =>
              /\ awaiting' = NoFuture
              /\ last' = [Call("flush_async", 0, 0, FALSE, r.res) EXCEPT !.ovf = r.ovf]
         /\ r.msgs # <<>> =>
              /\ awaiting' = [queue |-> r.msgs, final |-> r.res]
              /\ last' = [Call("flush_async", 0, 0, FALSE, "Pending") EXCEPT !.ovf = r.ovf]
    /\ sent' = <<>>
    /\ left' = left - 1
    /\ synced' = (DirtyEmpty' /\ DeviceEqualsBuffer')
    /\ touched' = [fresh |-> DirtyEmpty', pts |-> {}]

\* the awaited send ends and the future is polled again: on success the device has
\* the message and the future goes on to its next send or to its end; on failure `?`
\* ends it with the error
Poll ==
    /\ awaiting # NoFuture
    /\ UNCHANGED <<SIZE, rotation, buffer, min_x, max_x, min_y, max_y, left, touched>>
    /\ \E ok \in BOOLEAN :
         IF ok
         THEN /\ sent' = Append(sent, Head(awaiting.queue))
              /\ gddram' = DeviceAfter(gddram, sent')
              /\ IF Tail(awaiting.queue) = <<>>
                 THEN /\ awaiting' = NoFuture
                      /\ last' = [last EXCEPT !.res = awaiting.final, !.tried = Len(sent')]
                      /\ panicked' = (awaiting.final = "Panic")
                 ELSE /\ awaiting' = [awaiting EXCEPT !.queue = Tail(@)]
                      /\ last' = [last EXCEPT !.tried = Len(sent')]
                      /\ UNCHANGED panicked
         ELSE /\ awaiting' = NoFuture
              /\ last' = [last EXCEPT !.res = "Err", !.tried = Len(sent) + 1]
              /\ UNCHANGED <<sent, gddram, panicked>>
    /\ synced' = (DirtyEmpty' /\ DeviceEqualsBuffer')

\* the future is dropped at its suspension point; the send it awaited may or may not
\* have reached the device
Drop ==
    /\ awaiting # NoFuture
    /\ UNCHANGED <<SIZE, rotation, buffer, min_x, max_x, min_y, max_y, left, touched,
                   panicked>>
    /\ \E reached \in BOOLEAN :
         /\ sent' = IF reached THEN Append(sent, Head(awaiting.queue)) ELSE sent
         /\ gddram' = DeviceAfter(gddram, sent')
    /\ awaiting' = NoFuture
    /\ last' = [last EXCEPT !.res = "Dropped", !.tried = Len(sent) + 1]
    /\ synced' = (DirtyEmpty' /\ DeviceEqualsBuffer')

Next == SetPixel \/ DrawIter \/ Clear \/ InitDisplay \/ SetRotation \/ Flush

Spec == Init /\ [][Next]_vars

SpecDeep == InitDeep /\ [][Next]_vars

\* the runs with flush_async: the calls that make something dirty, both flushes, and
\* the steps of the future
NextAsync == SetPixel \/ Clear \/ Flush \/ FlushAsync \/ Poll \/ Drop

SpecAsync == InitAsync /\ [][NextAsync]_vars

----------------------------------------------------------------------------
(* Vocabulary of the properties *)

\* the dirty region is the empty sentinel
Sentinel == min_x = 255 /\ max_x = 0 /\ min_y = 255 /\ max_y = 0

\* the dirty region is the whole display under the current rotation
FullDirty ==
    /\ min_x = 0 /\ max_x = dimensions(SIZE, rotation)[1] - 1
    /\ min_y = 0 /\ max_y = dimensions(SIZE, rotation)[2] - 1

\* the buffer as the sequence of its bytes
WholeBuffer == [k \in 1..SIZE.BufferSize |-> buffer[k - 1]]

\* the latest call was set_pixel with coordinates inside the display
InRangeSetPixel ==
    last.op = "set_pixel" /\ InRange(SIZE, rotation, last.x, last.y)

\* smallest and largest element of a non-empty set of numbers
SetMin(S) == CHOOSE a \in S : \A b \in S : a <= b
SetMax(S) == CHOOSE a \in S : \A b \in S : a >= b

\* the latest call was a flush made while something was dirty
FlushOfDirty ==
    /\ last.op = "flush"
    /\ last.dirty[1] <= last.dirty[2]
    /\ last.dirty[3] <= last.dirty[4]

\* the dirty region that flush found: its range on the axis that runs along a page
\* row (the column axis) and on the axis that the pages divide, as <<min, max>>
FlushedColumns ==
    IF rotation \in {"Rotate0", "Rotate180"}
    THEN <<last.dirty[1], last.dirty[2]>> ELSE <<last.dirty[3], last.dirty[4]>>

FlushedRows ==
    IF rotation \in {"Rotate0", "Rotate180"}
    THEN <<last.dirty[3], last.dirty[4]>> ELSE <<last.dirty[1], last.dirty[2]>>

\* the dirty region that flush found lay inside the display
FlushedInsideDisplay ==
    /\ last.dirty[2] < dimensions(SIZE, rotation)[1]
    /\ last.dirty[4] < dimensions(SIZE, rotation)[2]

\* n bytes of the buffer from column lo of the page row p, rows being row_len long;
\* -1 stands for a byte outside the buffer
PageRow(row_len, p, lo, n) ==
    [k \in 1..n |-> IF p * row_len + lo + k - 1 \in DOMAIN buffer
                    THEN buffer[p * row_len + lo + k - 1] ELSE -1]

----------------------------------------------------------------------------
(* C1 *)

\* C1: for every rotation and every (x, y) inside the logical extent, after
\* set_pixel(x, y, value) the bit at byte (y/8)*width + x, bit y%8 (rotation 0/180), or
\* at byte (x/8)*width + y, bit x%8 (rotation 90/270), reads 1 for value = true and 0
\* for value = false, whatever it held before.
C1_SetPixelWritesBit ==
    InRangeSetPixel =>
        LET byteIndex == IF rotation \in {"Rotate0", "Rotate180"}
                         THEN (last.y \div 8) * SIZE.WIDTH + last.x
                         ELSE (last.x \div 8) * SIZE.WIDTH + last.y
            bitOffset == IF rotation \in {"Rotate0", "Rotate180"}
                         THEN last.y % 8 ELSE last.x % 8
        IN  /\ byteIndex \in DOMAIN buffer
            /\ (buffer[byteIndex] \div Pow2(bitOffset)) % 2 = (IF last.value THEN 1 ELSE 0)

\* under a quarter-turn rotation a pixel whose bit clear(true) had set is switched
\* off: its byte reads 0 while the rest of the buffer keeps the fill
C1_Witness ==
    /\ InRangeSetPixel
    /\ ~last.value
    /\ rotation \in {"Rotate90", "Rotate270"}
    /\ last.after = <<"clear", "Ok">>
    /\ buffer[(last.x \div 8) * SIZE.WIDTH + last.y] = 0
    /\ \E i \in DOMAIN buffer : buffer[i] # 0

----------------------------------------------------------------------------
(* C2 *)

\* C2: set_pixel with a coordinate outside the logical extent of the current rotation
\* is a no-op: the buffer and the dirty region are unchanged.
C2_OutOfRangeIsNoop ==
    [][(last'.op = "set_pixel" /\ ~InRange(SIZE, rotation, last'.x, last'.y))
         => UNCHANGED <<buffer, min_x, max_x, min_y, max_y>>]_vars

----------------------------------------------------------------------------
(* C3 *)

\* C3: with a fixed rotation and a channel that accepts every send, from a state where
\* the display RAM equals the buffer and the dirty region is empty, after in-range
\* set_pixel and clear calls followed by one flush the display RAM equals the buffer in
\* every byte, each byte at the column and page of its buffer index.
C3_FlushSyncsDevice ==
    (last.op = "flush" /\ last.res = "Ok" /\ last.synced) => DeviceEqualsBuffer

\* a flush that found pixel writes and a clear pending after a synced state, and
\* streamed several page rows holding a set pixel
C3_Witness ==
    /\ last.op = "flush" /\ last.res = "Ok" /\ last.synced
    /\ last.after[1] \in {"set_pixel", "clear"}
    /\ left = 0
    /\ Len(sent) > 2
    /\ \E i \in DOMAIN buffer : buffer[i] > 1

----------------------------------------------------------------------------
(* C4 *)

\* C4: starting from an empty dirty region, after a non-empty sequence of in-range
\* set_pixel calls (no flush, clear or rotation change in between) the dirty region is
\* the tight bounding box of the coordinates passed.
C4_TightBoundingBox ==
    (touched.fresh /\ touched.pts # {}) =>
        /\ min_x = SetMin({p[1] : p \in touched.pts})
        /\ max_x = SetMax({p[1] : p \in touched.pts})
        /\ min_y = SetMin({p[2] : p \in touched.pts})
        /\ max_y = SetMax({p[2] : p \in touched.pts})

\* two different pixels have been touched since the dirty region was empty
C4_Witness ==
    /\ touched.fresh
    /\ Cardinality(touched.pts) = 2
    /\ min_x < max_x /\ min_y < max_y

----------------------------------------------------------------------------
(* C5 *)

\* C5: in every reachable state the dirty region is empty or lies inside the logical
\* extent of the current rotation: min_x <= max_x < width, min_y <= max_y < height.
C5_DirtyInsideDisplay ==
    \/ DirtyEmpty
    \/ /\ min_x <= max_x /\ max_x < dimensions(SIZE, rotation)[1]
       /\ min_y <= max_y /\ max_y < dimensions(SIZE, rotation)[2]

----------------------------------------------------------------------------
(* C6 *)

\* C6: after a successful flush the dirty region is the empty sentinel, and a flush
\* made right after a successful flush returns success and sends no addressing command
\* and no data.
C6_FlushLeavesNothingDirty ==
    /\ (last.op = "flush" /\ last.res = "Ok") => Sentinel
    /\ (last.op = "flush" /\ last.after = <<"flush", "Ok">>) =>
           (last.res = "Ok" /\ sent = <<>>)

\* the second of two flushes in a row, the first of which streamed a set pixel to
\* the display
C6_Witness ==
    /\ last.op = "flush" /\ last.after = <<"flush", "Ok">>
    /\ last.res = "Ok" /\ sent = <<>>
    /\ left = 0
    /\ \E a \in DOMAIN gddram : gddram[a] # 0

----------------------------------------------------------------------------
(* C7 *)

\* C7 as stated: immediately after construction the dirty region is the full display
\* rectangle (0,0)-(width-1,height-1).
C7_FullDirtyAtConstruction ==
    last.op = "new" => FullDirty

\* C7, amended: immediately after construction the dirty region is the empty sentinel,
\* so a flush made first transmits nothing; the dirty region is the full display
\* rectangle once init has been called.
C7_EmptyDirtyAtConstruction ==
    /\ last.op = "new" => Sentinel
    /\ (last.op = "flush" /\ last.after[1] = "new") => (last.res = "Ok" /\ sent = <<>>)
    /\ last.op = "init" => FullDirty

\* the first call after construction was a flush
C7_Witness ==
    last.op = "flush" /\ last.after[1] = "new" /\ Sentinel

----------------------------------------------------------------------------
(* C8 *)

\* C8: clear(value) sets every byte of the buffer to 0xFF when value is true and to
\* 0x00 when value is false.
C8_ClearFillsAllBits ==
    last.op = "clear" =>
        \A i \in DOMAIN buffer : buffer[i] = (IF last.value THEN 255 ELSE 0)

----------------------------------------------------------------------------
(* C9 *)

\* C9: under any rotation clear(value) sets the dirty region to the full display
\* extent, and the flush made right after it, when the channel accepts every send,
\* transmits every byte of the buffer: bufferSize bytes, the buffer in order.
C9_ClearThenFlushSendsAll ==
    /\ last.op = "clear" => FullDirty
    /\ (last.op = "flush" /\ last.res = "Ok" /\ last.after[1] = "clear") =>
           /\ Len(DataBytes(sent)) = SIZE.BufferSize
           /\ DataBytes(sent) = WholeBuffer

\* a flush right after clear(true) has streamed the buffer under a quarter-turn rotation
C9_Witness ==
    /\ last.op = "flush" /\ last.res = "Ok" /\ last.after[1] = "clear"
    /\ rotation \in {"Rotate90", "Rotate270"}
    /\ Len(sent) > 1
    /\ \E i \in DOMAIN buffer : buffer[i] # 0

----------------------------------------------------------------------------
(* C10 *)

----------------------------------------------------------------------------
(* C11 *)

\* C11: a flush that finds something dirty issues one addressing command, and issues
\* it first; everything the channel accepts after it is a data chunk, and the k-th
\* chunk is one contiguous span of the k-th page row counted from the first dirty
\* one, every chunk starting at the same column and having the same length: the page
\* rows go out in strictly increasing order, none twice.
C11_OneCommandThenRowsInOrder ==
    FlushOfDirty =>
        /\ last.res # "Panic" => last.tried >= 1
        /\ last.res = "Ok" => Len(sent) >= 1
        /\ sent # <<>> => sent[1].kind = "addr"
        /\ \A k \in 2..Len(sent) :
               /\ sent[k].kind = "data"
               /\ Len(sent[k].bytes) = Len(sent[2].bytes)
               /\ FlushedColumns[1] + Len(sent[k].bytes) <= SIZE.WIDTH
               /\ sent[k].bytes = PageRow(SIZE.WIDTH, FlushedRows[1] \div 8 + k - 2,
                                          FlushedColumns[1], Len(sent[k].bytes))

\* a flush streamed two page rows that differ, after the addressing command
C11_Witness ==
    /\ FlushOfDirty
    /\ last.res = "Ok"
    /\ Len(sent) = 3
    /\ sent[1].kind = "addr"
    /\ sent[2].bytes # sent[3].bytes

----------------------------------------------------------------------------
(* C12 *)

\* C12: a flush that the channel fails, at the addressing command or at any chunk,
\* attempts no send after the failed one, returns the error, leaves the buffer as it
\* was and the dirty region at the empty sentinel; a flush made right after it finds
\* nothing dirty and transmits nothing.
C12_FailedFlushLosesDirty ==
    [][/\ (last'.op = "flush" /\ last'.res = "Err") =>
            /\ last'.tried = Len(sent') + 1
            /\ buffer' = buffer
            /\ Sentinel'
       /\ (last.op = "flush" /\ last.res = "Err" /\ last'.op = "flush") =>
            /\ last'.res = "Ok"
            /\ last'.tried = 0
            /\ sent' = <<>>
            /\ gddram' = gddram]_vars

\* a flush right after a failed one sent nothing, and the device differs from the
\* buffer
C12_Witness ==
    /\ last.op = "flush"
    /\ last.after = <<"flush", "Err">>
    /\ sent = <<>>
    /\ ~DeviceEqualsBuffer

----------------------------------------------------------------------------
(* C13 *)

\* C13: a successful flush of a dirty region inside the display, as in-range
\* set_pixel calls build it from the empty one, streams (pages touched) x (columns
\* touched) bytes, a number fixed by the bounding box alone.
C13_BytesArePagesTimesColumns ==
    (FlushOfDirty /\ FlushedInsideDisplay /\ last.res = "Ok") =>
        Len(DataBytes(sent)) =
            (FlushedRows[2] \div 8 - FlushedRows[1] \div 8 + 1)
                * (FlushedColumns[2] - FlushedColumns[1] + 1)

\* two in-range set_pixel calls on the fresh instance touched columns 1..8 of the
\* pages 0 and 1, and flush streamed 16 bytes
C13_Witness ==
    /\ FlushOfDirty
    /\ last.res = "Ok"
    /\ last.after = <<"set_pixel", "Ok">>
    /\ rotation = "Rotate0"
    /\ last.dirty = <<1, 8, 3, 8>>
    /\ Len(DataBytes(sent)) = 16

----------------------------------------------------------------------------
(* C14 *)

\* C14: the addressing command of a flush starts at the column (dirty minimum on the
\* column axis) + (effective offset), the sum taken as the code takes it, in u8, where
\* the effective offset is OFFSETX under rotation 0/270 and DRIVER_COLS - WIDTH -
\* OFFSETX under rotation 90/180 and the column axis is x under rotation 0/180 and y
\* under 90/270; it starts at the page of (dirty minimum on the other axis) + OFFSETY;
\* and for a dirty region inside the display it ends at the dirty maxima shifted the
\* same way.
C14_AddressIsShiftedDirty ==
    (FlushOfDirty /\ sent # <<>>) =>
        LET offset == IF rotation \in {"Rotate0", "Rotate270"}
                      THEN SIZE.OFFSETX
                      ELSE DRIVER_COLS - SIZE.WIDTH - SIZE.OFFSETX
        IN  /\ sent[1].kind = "addr"
            /\ sent[1].start[1] = (FlushedColumns[1] + offset) % U8
            /\ sent[1].start[2] = ((FlushedRows[1] + SIZE.OFFSETY) % U8) \div 8
            /\ FlushedInsideDisplay =>
                  /\ sent[1].end[1] = FlushedColumns[2] + offset
                  /\ sent[1].end[2] = (FlushedRows[2] + SIZE.OFFSETY) \div 8

\* on 72x40 under rotation 0, set_pixel(0, 0, ..) on the fresh instance and a flush:
\* the addressing command starts at column 28
C14_Witness ==
    /\ SIZE = DisplaySize72x40
    /\ rotation = "Rotate0"
    /\ FlushOfDirty
    /\ last.after = <<"set_pixel", "Ok">>
    /\ last.dirty = <<0, 0, 0, 0>>
    /\ sent # <<>>
    /\ sent[1].start[1] = 28

----------------------------------------------------------------------------
(* C15 *)

\* C15: on 128x64 under rotation 0, when set_pixel(0, 0, true) was called with nothing
\* dirty and every byte but the pixel's own is 0, a successful flush sends one
\* addressing command for the rectangle (OFFSETX, OFFSETY)-(OFFSETX, OFFSETY), in
\* columns and pages, and then one data chunk of the one byte 0x01.
C15_OnePixelOneByte ==
    [][(/\ SIZE = DisplaySize128x64
        /\ rotation = "Rotate0"
        /\ last.op = "set_pixel" /\ last.x = 0 /\ last.y = 0 /\ last.value
        /\ last.dirty = <<255, 0, 255, 0>>
        /\ \A i \in DOMAIN buffer \ {0} : buffer[i] = 0
        /\ last'.op = "flush"
        /\ last'.res = "Ok")
       => /\ Len(sent') = 2
          /\ sent'[1].kind = "addr"
          /\ sent'[1].start = <<SIZE.OFFSETX, SIZE.OFFSETY \div 8>>
          /\ sent'[1].end = <<SIZE.OFFSETX, SIZE.OFFSETY \div 8>>
          /\ sent'[2].kind = "data"
          /\ sent'[2].bytes = <<1>>]_vars

\* that flush: the fresh 128x64 instance, set_pixel(0, 0, true), then the two sends
C15_Witness ==
    /\ SIZE = DisplaySize128x64
    /\ rotation = "Rotate0"
    /\ last.op = "flush"
    /\ last.res = "Ok"
    /\ last.after = <<"set_pixel", "Ok">>
    /\ last.dirty = <<0, 0, 0, 0>>
    /\ left = MaxOps - 2
    /\ Len(sent) = 2
    /\ sent[2].bytes = <<1>>

----------------------------------------------------------------------------
(* C16 *)

\* the logical extent as the claim gives it: WIDTH x HEIGHT, exchanged under a
\* 90 or 270 degree rotation
LogicalExtent ==
    IF rotation \in {"Rotate90", "Rotate270"}
    THEN <<SIZE.HEIGHT, SIZE.WIDTH>> ELSE <<SIZE.WIDTH, SIZE.HEIGHT>>

\* set_pixel called for every pixel of a list, in order
RECURSIVE SetPixelsInOrder(_, _)
SetPixelsInOrder(m, pixels) ==
    IF pixels = <<>>
    THEN m
    ELSE SetPixelsInOrder(set_pixel(SIZE, rotation, m, Head(pixels).pos[1],
                                    Head(pixels).pos[2], Head(pixels).on),
                          Tail(pixels))

\* the pixel lies in [0, w) x [0, h) of the logical extent
InsideExtent(p) ==
    /\ p.pos[1] >= 0 /\ p.pos[1] < LogicalExtent[1]
    /\ p.pos[2] >= 0 /\ p.pos[2] < LogicalExtent[2]

\* C16: draw_iter with any pixels, negative and too large coordinates among them,
\* leaves the buffer and the dirty region as set_pixel would, called in order for the
\* pixels inside [0, w) x [0, h) of the rotated size and for no other; it returns Ok
\* and sends nothing.
C16_DrawIterIsFilteredSetPixel ==
    [][last'.op = "draw_iter" =>
        /\ [buffer |-> buffer', min_x |-> min_x', max_x |-> max_x',
            min_y |-> min_y', max_y |-> max_y']
           = SetPixelsInOrder(Mode, SelectSeq(last'.pixels, InsideExtent))
        /\ last'.res = "Ok"
        /\ sent' = <<>>
        /\ gddram' = gddram]_vars

\* under a quarter-turn rotation a drawing with a pixel at y = 50, beyond the
\* unrotated height of 72x40, and a pixel inside both extents has been drawn: both
\* widened the dirty region
C16_Witness ==
    /\ last.op = "draw_iter"
    /\ rotation \in {"Rotate90", "Rotate270"}
    /\ SIZE = DisplaySize72x40
    /\ Len(last.pixels) = 2
    /\ last.dirty = <<255, 0, 255, 0>>
    /\ <<min_x, max_x, min_y, max_y>> = <<1, 1, 8, 50>>
    /\ buffer[50] = 2

----------------------------------------------------------------------------
(* C17 *)

\* C17: while a flush_async future is suspended, at the addressing command or at any
\* chunk, the dirty region is the empty sentinel; it still is when the future has
\* been dropped there, and the flush or flush_async called next finds nothing dirty
\* and transmits nothing.
C17_SuspendedFlushHasResetDirty ==
    /\ awaiting # NoFuture => Sentinel
    /\ (last.op = "flush_async" /\ last.res = "Dropped") => Sentinel
    /\ (last.op \in {"flush", "flush_async"} /\ last.after = <<"flush_async", "Dropped">>) =>
          /\ last.res = "Ok"
          /\ last.tried = 0
          /\ sent = <<>>
          /\ awaiting = NoFuture

\* a flush_async was dropped while it awaited a chunk, the flush called next sent
\* nothing, and the device differs from the buffer
C17_Witness ==
    /\ last.op = "flush"
    /\ last.after = <<"flush_async", "Dropped">>
    /\ sent = <<>>
    /\ ~DeviceEqualsBuffer
    /\ \E a \in DOMAIN gddram : gddram[a] # 0

----------------------------------------------------------------------------
(* C18 *)

\* the chunks of a flush for rows of the given length: one for every page row from
\* the first dirty page to the last, each the bytes of the dirty columns of its row
ChunksOfRows(row_len) ==
    [k \in 1..(FlushedRows[2] \div 8 - FlushedRows[1] \div 8 + 1) |->
        PageRow(row_len, FlushedRows[1] \div 8 + k - 1, FlushedColumns[1],
                FlushedColumns[2] - FlushedColumns[1] + 1)]

\* the data chunks the channel accepted, in order
ChunksSent == [k \in 1..(Len(sent) - 1) |-> sent[k + 1].bytes]

\* C18 as stated: a successful flush of a dirty region inside the display sends, for
\* exactly the page rows that meet the dirty range, the bytes of the dirty columns of
\* the row, the rows being WIDTH long under rotation 0/180 and HEIGHT long under
\* rotation 90/270.
C18_RowsOfPhysicalHeight ==
    (FlushOfDirty /\ FlushedInsideDisplay /\ last.res = "Ok") =>
        ChunksSent = ChunksOfRows(IF rotation \in {"Rotate0", "Rotate180"}
                                  THEN SIZE.WIDTH ELSE SIZE.HEIGHT)

\* C18, amended: a successful flush of a dirty region inside the display sends, for
\* exactly the page rows that meet the dirty range, the bytes of the dirty columns of
\* the row, the rows being WIDTH long under every rotation (under rotation 90/270
\* that is the height dimensions() reports).
C18_RowsOfPhysicalWidth ==
    (FlushOfDirty /\ FlushedInsideDisplay /\ last.res = "Ok") =>
        ChunksSent = ChunksOfRows(SIZE.WIDTH)

\* under a quarter-turn rotation of a panel that is not square, a flush has sent the
\* page row 1 or a later one, and a pixel that was set is in what it sent
C18_Witness ==
    /\ FlushOfDirty
    /\ FlushedInsideDisplay
    /\ last.res = "Ok"
    /\ rotation \in {"Rotate90", "Rotate270"}
    /\ SIZE.WIDTH # SIZE.HEIGHT
    /\ FlushedRows[1] >= 8
    /\ \E k \in 1..Len(ChunksSent) : \E j \in 1..Len(ChunksSent[k]) : ChunksSent[k][j] # 0

----------------------------------------------------------------------------
(* C19 *)

\* the pixel that a bit of the buffer shows, by the layout of pages of 8 pixel rows
PixelOf(size, rot, idx, bit) ==
    IF rot \in {"Rotate0", "Rotate180"}
    THEN <<idx % size.WIDTH, (idx \div size.WIDTH) * 8 + bit>>
    ELSE <<(idx \div size.WIDTH) * 8 + bit, idx % size.WIDTH>>

\* the mapping of set_pixel is one-to-one from the pixels of the display onto the
\* bits of the buffer
PixelIndexIsBijection(size, rot) ==
    /\ \A x \in 0..(dimensions(size, rot)[1] - 1), y \in 0..(dimensions(size, rot)[2] - 1) :
          /\ PixelIndex(size, rot, x, y)[1] \in 0..(size.BufferSize - 1)
          /\ PixelIndex(size, rot, x, y)[2] \in 0..7
          /\ PixelOf(size, rot, PixelIndex(size, rot, x, y)[1],
                     PixelIndex(size, rot, x, y)[2]) = <<x, y>>
    /\ \A idx \in 0..(size.BufferSize - 1), bit \in 0..7 :
          /\ InRange(size, rot, PixelOf(size, rot, idx, bit)[1],
                     PixelOf(size, rot, idx, bit)[2])
          /\ PixelIndex(size, rot, PixelOf(size, rot, idx, bit)[1],
                        PixelOf(size, rot, idx, bit)[2]) = <<idx, bit>>

\* C19: for the geometry and the rotation of every instance, the pixel mapping of
\* set_pixel is a bijection between the pixels of the display and the (byte, bit)
\* positions of the buffer, every pixel's byte being inside the buffer; and a
\* set_pixel call for a pixel of the display leaves every other byte as it was and
\* changes, in the pixel's byte, no bit but the pixel's.
C19_PixelMappingIsBijection ==
    [][/\ last.op = "new" => PixelIndexIsBijection(SIZE, rotation)
       /\ (last'.op = "set_pixel" /\ InRange(SIZE, rotation, last'.x, last'.y)) =>
            LET at == PixelIndex(SIZE, rotation, last'.x, last'.y)
            IN  /\ \A i \in DOMAIN buffer \ {at[1]} : buffer'[i] = buffer[i]
                /\ ClearBit(buffer'[at[1]], at[2]) = ClearBit(buffer[at[1]], at[2])]_vars

\* under a quarter-turn rotation a set_pixel call has switched bit 1 on in a byte
\* whose bit 0 clear(true) had set: the byte reads 3, every other byte still 1
C19_Witness ==
    /\ InRangeSetPixel
    /\ last.value
    /\ rotation \in {"Rotate90", "Rotate270"}
    /\ last.after = <<"clear", "Ok">>
    /\ PixelIndex(SIZE, rotation, last.x, last.y)[2] = 1
    /\ buffer[PixelIndex(SIZE, rotation, last.x, last.y)[1]] = 3
    /\ \A i \in DOMAIN buffer \ {PixelIndex(SIZE, rotation, last.x, last.y)[1]} :
          buffer[i] = 1

----------------------------------------------------------------------------
(* C20 *)

\* C20: whatever calls came before it (set_pixel with any coordinates, clear,
\* set_rotation, flush), no u8 operation of a flush leaves 0..255: not max_x + 1 or
\* max_y + 1 of dirty_area, not a coordinate + offset of display_area, not
\* DRIVER_COLS - WIDTH - OFFSETX.
C20_FlushNeverOverflows ==
    last.op = "flush" => ~last.ovf

----------------------------------------------------------------------------
(* C21 *)

\* the first controller column of the display's window under the current rotation
WindowStart ==
    IF rotation \in {"Rotate0", "Rotate270"}
    THEN SIZE.OFFSETX
    ELSE DRIVER_COLS - SIZE.WIDTH - SIZE.OFFSETX

\* C21: for a flush of a dirty region inside the display, as in-range set_pixel calls
\* and clear produce it, the rectangle of display_area lies in the display's window,
\* which lies in the controller's grid: WindowStart + WIDTH <= DRIVER_COLS, its columns
\* are in [WindowStart, WindowStart + WIDTH], its rows in the HEIGHT rows from
\* OFFSETY, and its start corner is componentwise <= its end corner; the addressing
\* command sent for it names columns and pages of that window, first <= last.
C21_AddressInsideWindow ==
    (FlushOfDirty /\ FlushedInsideDisplay) =>
        LET start == last.area[1]
            end   == last.area[2]
        IN  /\ WindowStart >= 0
            /\ WindowStart + SIZE.WIDTH <= DRIVER_COLS
            /\ WindowStart <= start[1]
            /\ start[1] <= end[1]
            /\ end[1] <= WindowStart + SIZE.WIDTH
            /\ SIZE.OFFSETY <= start[2]
            /\ start[2] <= end[2]
            /\ end[2] < SIZE.OFFSETY + SIZE.HEIGHT
            /\ sent # <<>> =>
                  /\ sent[1].kind = "addr"
                  /\ WindowStart <= sent[1].start[1]
                  /\ sent[1].start[1] <= sent[1].end[1]
                  /\ sent[1].end[1] < WindowStart + SIZE.WIDTH
                  /\ SIZE.OFFSETY \div 8 <= sent[1].start[2]
                  /\ sent[1].start[2] <= sent[1].end[2]
                  /\ sent[1].end[2] <= (SIZE.OFFSETY + SIZE.HEIGHT - 1) \div 8
                  /\ sent[1].end[2] < DRIVER_PAGES

\* on 96x16 under a rotation that mirrors the columns, a flush after clear: the
\* window starts at column 32 and the rectangle ends at the controller's last column
C21_Witness ==
    /\ SIZE = DisplaySize96x16
    /\ rotation \in {"Rotate90", "Rotate180"}
    /\ FlushOfDirty
    /\ FlushedInsideDisplay
    /\ last.after = <<"clear", "Ok">>
    /\ last.area[1][1] = 32
    /\ last.area[2][1] = DRIVER_COLS
    /\ sent # <<>>
    /\ sent[1].end[1] = DRIVER_COLS - 1

====
